---- MODULE Spec2Model ----
(***************************************************************************)
(* Model of the static-site generator scripts/build.js: the build pipeline *)
(* of main(), the content loader, the tag map, the related-post selection  *)
(* and the sitemap writer.                                                 *)
(*                                                                         *)
(* A text (a file name, a tag) is a sequence of one-character strings, so  *)
(* that slugify and localeCompare are computed character by character.     *)
(* The token "e_acute" stands for the single character U+00E9.             *)
(***************************************************************************)
EXTENDS Integers, Sequences, FiniteSets, TLC

\* ------------------------------------------------------------------ bounds

\* Publish dates are 1..MaxDate (a larger number is a later date).
MaxDate == 2

\* ------------------------------------------------------- sequence helpers

Range(s) == { s[i] : i \in 1..Len(s) }

RECURSIVE SeqFilter(_, _)
\* Array.prototype.filter with the predicate given as the set of kept values.
SeqFilter(s, keep) ==
    IF s = << >> THEN << >>
    ELSE IF Head(s) \in keep THEN << Head(s) >> \o SeqFilter(Tail(s), keep)
         ELSE SeqFilter(Tail(s), keep)

Take(s, n) == SubSeq(s, 1, IF Len(s) < n THEN Len(s) ELSE n)

RECURSIVE Str(_)
\* The JavaScript string of a text.
Str(text) == IF text = << >> THEN "" ELSE Head(text) \o Str(Tail(text))

\* ------------------------------------------------------------- characters

Digits == << "0", "1", "2", "3", "4", "5", "6", "7", "8", "9" >>

Letters == << "a", "b", "c", "d", "e", "x", "y", "z" >>

IndexOf(s, c) == CHOOSE i \in 1..Len(s) : s[i] = c

\* String.prototype.normalize('NFD') followed by the removal of U+0300-U+036F.
Unaccent(c) == IF c = "e_acute" THEN "e" ELSE c

\* String.prototype.toLowerCase on one character.
Lower(c) ==
    CASE c = "A" -> "a"
      [] c = "B" -> "b"
      [] c = "X" -> "x"
      [] c = "Y" -> "y"
      [] OTHER -> c

\* The character class [a-z0-9].
IsSlugChar(c) == c \in Range(Letters) \cup Range(Digits)

\* String.prototype.trim: leading and trailing blanks removed.
RECURSIVE TrimLeft(_)
TrimLeft(text) ==
    IF text # << >> /\ Head(text) = " " THEN TrimLeft(Tail(text)) ELSE text

RECURSIVE TrimRight(_)
TrimRight(text) ==
    IF text # << >> /\ text[Len(text)] = " "
    THEN TrimRight(SubSeq(text, 1, Len(text) - 1))
    ELSE text

Trim(text) == TrimRight(TrimLeft(text))

\* ------------------------------------------------------------------ slugify

SlugMaxLen == 80

\* replace(/[^a-z0-9]+/g, '-'): every maximal run of other characters
\* becomes one hyphen. inRun: the character before the text was part of a
\* run. Of a run only its first character is kept, as the hyphen.
Hyphenate(text, inRun) ==
    LET kept == { i \in 1..Len(text) :
                    \/ IsSlugChar(text[i])
                    \/ i = 1 /\ ~inRun
                    \/ i > 1 /\ IsSlugChar(text[i - 1]) }
        at(j) == CHOOSE i \in kept : Cardinality({ k \in kept : k <= i }) = j
    IN  [j \in 1..Cardinality(kept) |-> IF IsSlugChar(text[at(j)]) THEN text[at(j)] ELSE "-"]

\* replace(/(^-|-$)+/g, ''): a leading and a trailing hyphen are removed.
StripEdgeHyphens(text) ==
    LET noLead == IF text # << >> /\ Head(text) = "-" THEN Tail(text) ELSE text
    IN  IF noLead # << >> /\ noLead[Len(noLead)] = "-"
        THEN SubSeq(noLead, 1, Len(noLead) - 1)
        ELSE noLead

slugify(text) ==
    LET folded == [i \in 1..Len(text) |-> Lower(Unaccent(text[i]))]
    IN  Take(StripEdgeHyphens(Hyphenate(folded, FALSE)), SlugMaxLen)

\* ------------------------------------------------------------ localeCompare

\* Primary collation weight of a character under the pt-BR (root) collation:
\* blank, punctuation, digits, letters; case and accents do not count here.
PrimaryWeight(c) ==
    LET b == Lower(Unaccent(c))
    IN  IF b = " " THEN 1
        ELSE IF b = "-" THEN 2
        ELSE IF b \in Range(Digits) THEN 10 + IndexOf(Digits, b)
        ELSE 30 + IndexOf(Letters, b)

\* Tie-breaking weight: unaccented before accented, lower case before upper.
TertiaryWeight(c) ==
    (IF Unaccent(c) # c THEN 2 ELSE 0) + (IF Lower(c) # c THEN 1 ELSE 0)

RECURSIVE LexLess(_, _)
\* sequence of weights a before sequence of weights b, lexicographically
LexLess(a, b) ==
    IF b = << >> THEN FALSE
    ELSE IF a = << >> THEN TRUE
    ELSE IF Head(a) # Head(b) THEN Head(a) < Head(b)
    ELSE LexLess(Tail(a), Tail(b))

PrimaryKey(text) == [i \in 1..Len(text) |-> PrimaryWeight(text[i])]

TertiaryKey(text) == [i \in 1..Len(text) |-> TertiaryWeight(text[i])]

\* a.localeCompare(b, 'pt-BR') < 0
LocaleLess(a, b) ==
    \/ LexLess(PrimaryKey(a), PrimaryKey(b))
    \/ /\ PrimaryKey(a) = PrimaryKey(b)
       /\ LexLess(TertiaryKey(a), TertiaryKey(b))

\* ----------------------------------------------------------- Array.sort

\* Array.prototype.sort is stable: s sorted by a comparator given as the set
\* less of the pairs << a, b >> it orders a before b (a negative result),
\* elements that it does not separate keeping their relative order.
StableSort(s, less) ==
    LET n == Len(s)
        pos(i) == 1 + Cardinality({ j \in 1..n :
                        \/ << s[j], s[i] >> \in less
                        \/ << s[i], s[j] >> \notin less /\ j < i })
    IN  [p \in 1..n |-> s[CHOOSE i \in 1..n : pos(i) = p]]

\* ------------------------------------------------------ JavaScript objects

\* An object with string keys is the sequence of its [key, val] properties in
\* enumeration order (Object.keys, Object.entries, JSON.stringify): the keys
\* that are canonical array indices first, in ascending numeric order, then
\* every other key in the order of its creation.
IsArrayIndex(key) ==
    /\ key # << >>
    /\ \A i \in 1..Len(key) : key[i] \in Range(Digits)
    /\ Len(key) = 1 \/ key[1] # "0"

RECURSIVE NumVal(_)
NumVal(key) ==
    IF key = << >> THEN 0
    ELSE 10 * NumVal(SubSeq(key, 1, Len(key) - 1)) + (IndexOf(Digits, key[Len(key)]) - 1)

ObjectKeys(obj) == [i \in 1..Len(obj) |-> obj[i].key]

ObjHas(obj, key) == \E i \in 1..Len(obj) : obj[i].key = key

ObjGet(obj, key) == obj[CHOOSE i \in 1..Len(obj) : obj[i].key = key].val

\* obj[key] = val
ObjSet(obj, key, val) ==
    IF ObjHas(obj, key)
    THEN [i \in 1..Len(obj) |-> IF obj[i].key = key THEN [key |-> key, val |-> val] ELSE obj[i]]
    ELSE IF IsArrayIndex(key)
         THEN LET before == { i \in 1..Len(obj) :
                                IsArrayIndex(obj[i].key) /\ NumVal(obj[i].key) < NumVal(key) }
                  k == Cardinality(before)
              IN  SubSeq(obj, 1, k) \o << [key |-> key, val |-> val] >> \o SubSeq(obj, k + 1, Len(obj))
         ELSE Append(obj, [key |-> key, val |-> val])

\* ------------------------------------------------------------ post loading

REQUIRED_FRONTMATTER_FIELDS ==
    << "title", "date", "category", "summary", "readingTime", "tags", "coverImage" >>

\* The metadata header of a post file, as gray-matter parses it:
\*   fields       the keys present in the header
\*   date         the publish date, 0 when the value does not parse as a date
\*   tagsIsArray  whether the value of tags is a list; tags: its entries
\* The title of a post is its file name.

\* validateFrontmatter: the error it throws, or none
NoError == [kind |-> "none", file |-> "", fields |-> << >>]

\* Mutant: the error names only the first missing field.
validateFrontmatter_FirstMissingOnly(filename, data) ==
    LET missing == SeqFilter(REQUIRED_FRONTMATTER_FIELDS,
                             Range(REQUIRED_FRONTMATTER_FIELDS) \ data.fields)
    IN  IF Len(missing) > 0
        THEN [kind |-> "missing", file |-> Str(filename), fields |-> << missing[1] >>]
        ELSE IF ~data.tagsIsArray \/ Len(data.tags) = 0
        THEN [kind |-> "tags", file |-> Str(filename), fields |-> << >>]
        ELSE NoError

validateFrontmatter(filename, data) ==
    LET missing == SeqFilter(REQUIRED_FRONTMATTER_FIELDS,
                             Range(REQUIRED_FRONTMATTER_FIELDS) \ data.fields)
    IN  IF Len(missing) > 0
        THEN [kind |-> "missing", file |-> Str(filename), fields |-> missing]
        ELSE IF ~data.tagsIsArray \/ Len(data.tags) = 0
        THEN [kind |-> "tags", file |-> Str(filename), fields |-> << >>]
        ELSE NoError

\* The error of one iteration of the loop of loadPosts, or none
PostError(file, data) ==
    IF validateFrontmatter(file, data) # NoError THEN validateFrontmatter(file, data)
    ELSE IF data.date = 0 THEN [kind |-> "date", file |-> Str(file), fields |-> << >>]
    ELSE NoError

\* parsed.data.tags.map((tag) => String(tag).trim()).filter(Boolean)
CleanTags(raw) ==
    LET trimmed == [i \in 1..Len(raw) |-> Trim(raw[i])]
    IN  SeqFilter(trimmed, Range(trimmed) \ { << >> })

\* The Post that one iteration of the loop of loadPosts pushes
MakePost(file, data) ==
    [ file     |-> file,
      slug     |-> slugify(file),
      title    |-> Str(file),
      date     |-> data.date,
      category |-> data.category,
      tags     |-> CleanTags(data.tags),
      url      |-> "/posts/" \o Str(slugify(file)) \o ".html" ]

DateDesc(a, b) == b.date - a.date < 0

DateAsc(a, b) == a.date - b.date < 0

\* Mutant: the comparator is a.date - b.date.
SortPosts_Ascending(posts) ==
    StableSort(posts, { pr \in Range(posts) \X Range(posts) : DateAsc(pr[1], pr[2]) })

\* posts.sort((a, b) => b.date - a.date)
SortPosts(posts) ==
    StableSort(posts, { pr \in Range(posts) \X Range(posts) : DateDesc(pr[1], pr[2]) })

\* ------------------------------------------------------------ buildTagsMap

TagEntry(post) ==
    [title |-> post.title, category |-> post.category, date |-> post.date, url |-> post.url]

RECURSIVE TagPairs(_)
\* The (tag, entry) pairs in the order the two nested loops visit them
TagPairs(posts) ==
    IF posts = << >> THEN << >>
    ELSE [i \in 1..Len(Head(posts).tags) |->
             [tag |-> Head(posts).tags[i], entry |-> TagEntry(Head(posts))]]
         \o TagPairs(Tail(posts))

RECURSIVE PushEntries(_, _)
\* if (!tagsMap[tag]) tagsMap[tag] = []; tagsMap[tag].push(entry)
PushEntries(obj, pairs) ==
    IF pairs = << >> THEN obj
    ELSE LET tag == Head(pairs).tag
             created == IF ObjHas(obj, tag) THEN obj ELSE ObjSet(obj, tag, << >>)
         IN  PushEntries(ObjSet(created, tag, Append(ObjGet(created, tag), Head(pairs).entry)),
                         Tail(pairs))

RECURSIVE CopyKeys(_, _, _)
\* keys.forEach((tag) => { sorted[tag] = tagsMap[tag] })
CopyKeys(sorted, keys, tagsMap) ==
    IF keys = << >> THEN sorted
    ELSE CopyKeys(ObjSet(sorted, Head(keys), ObjGet(tagsMap, Head(keys))), Tail(keys), tagsMap)

buildTagsMap(posts) ==
    LET tagsMap == PushEntries(<< >>, TagPairs(posts))
    IN  CopyKeys(<< >>, StableSort(ObjectKeys(tagsMap),
                     { pr \in Range(ObjectKeys(tagsMap)) \X Range(ObjectKeys(tagsMap)) :
                         LocaleLess(pr[1], pr[2]) }), tagsMap)

\* -------------------------------------------------------- findRelatedPosts

RelatedMax == 3

CategoryBonus == 2

\* sharedTags + categoryBonus of post for the current post
Score(post, current) ==
    Len(SeqFilter(post.tags, Range(current.tags)))
    + (IF post.category = current.category THEN CategoryBonus ELSE 0)

\* The comparator of the sort of scored: a before b
ScoredBefore(a, b) ==
    IF b.score # a.score THEN b.score - a.score < 0 ELSE b.post.date - a.post.date < 0

\* The posts the loop does not skip: post.slug !== current.slug
OtherPosts(current, posts) ==
    SeqFilter(posts, { p \in Range(posts) : p.slug # current.slug })

\* Mutant: posts that score zero fill the result up to three.
findRelatedPosts_PadsWithZeroScores(current, posts) ==
    LET others == OtherPosts(current, posts)
        scoredAll == [i \in 1..Len(others) |->
                         [post |-> others[i], score |-> Score(others[i], current)]]
        sorted == StableSort(scoredAll, { pr \in Range(scoredAll) \X Range(scoredAll) :
                                            ScoredBefore(pr[1], pr[2]) })
    IN  Take([i \in 1..Len(sorted) |-> sorted[i].post], RelatedMax)

findRelatedPosts(current, posts) ==
    LET others == OtherPosts(current, posts)
        scoredAll == [i \in 1..Len(others) |->
                         [post |-> others[i], score |-> Score(others[i], current)]]
        scored == SeqFilter(scoredAll, { e \in Range(scoredAll) : e.score > 0 })
        sorted == StableSort(scored, { pr \in Range(scored) \X Range(scored) :
                                         ScoredBefore(pr[1], pr[2]) })
        ordered == Take([i \in 1..Len(sorted) |-> sorted[i].post], RelatedMax)
    IN  IF Len(ordered) > 0 THEN ordered ELSE Take(others, RelatedMax)

\* ------------------------------------------------------------ writeSitemap

RECURSIVE UniquePages(_, _)
\* The loop of writeSitemap: the first page of every file, in order
UniquePages(pages, seen) ==
    IF pages = << >> THEN << >>
    ELSE IF Head(pages).file \in seen THEN UniquePages(Tail(pages), seen)
    ELSE << Head(pages) >> \o UniquePages(Tail(pages), seen \cup { Head(pages).file })

\* Mutant: the loop does not skip the files it has seen.
SitemapEntries_NoDedup(pages) ==
    [i \in 1..Len(pages) |-> [loc |-> pages[i].file, lastmod |-> pages[i].lastmod]]

\* Mutant: of the pages of a file the last one pushed is kept.
SitemapEntries_KeepsLastPush(pages) ==
    LET kept == SeqFilter([i \in 1..Len(pages) |-> [page |-> pages[i], at |-> i]],
                          { [page |-> pages[i], at |-> i] : i \in
                              { i \in 1..Len(pages) :
                                  \A j \in (i + 1)..Len(pages) : pages[j].file # pages[i].file } })
    IN  [i \in 1..Len(kept) |-> [loc |-> kept[i].page.file, lastmod |-> kept[i].page.lastmod]]

\* The <url> entries of sitemap.xml
SitemapEntries(pages) ==
    LET unique == UniquePages(pages, {})
    IN  [i \in 1..Len(unique) |-> [loc |-> unique[i].file, lastmod |-> unique[i].lastmod]]

\* ------------------------------------------------------------------ inputs

\* The names (without .md) of the files the posts directory may hold; the
\* first two have the same slug.
FileNames == { << "a", " ", "b" >>, << "a", "-", "b" >>, << "c" >> }

\* The category and tags of the metadata headers the post files may carry.
Headers ==
    { [category |-> "Tech",  tags |-> << << "x" >> >>],
      [category |-> "Other", tags |-> << << "x" >>, << "X" >> >>],
      [category |-> "Tech",  tags |-> << << "1", "0" >>, << "9" >> >>] }

ValidData ==
    { [fields |-> Range(REQUIRED_FRONTMATTER_FIELDS), date |-> d, category |-> h.category,
       tagsIsArray |-> TRUE, tags |-> h.tags] : d \in 1..MaxDate, h \in Headers }

SomeValidData == CHOOSE data \in ValidData : TRUE

\* Headers that loadPosts rejects: fields missing, tags that are no list or
\* an empty list, a date that does not parse.
InvalidData ==
    { [SomeValidData EXCEPT !.fields = @ \ { "summary" }],
      [SomeValidData EXCEPT !.fields = @ \ { "summary", "tags" }],
      [SomeValidData EXCEPT !.tagsIsArray = FALSE],
      [SomeValidData EXCEPT !.tags = << >>],
      [SomeValidData EXCEPT !.date = 0] }

\* A header whose tags are a list of blank entries only.
BlankTagsData == { [SomeValidData EXCEPT !.tags = << << " " >> >>] }

FileData == ValidData \cup InvalidData \cup BlankTagsData

\* What fs.readdir may return: the directory holds any of the files, listed in
\* any order.
Listings ==
    { l \in UNION { [1..n -> FileNames] : n \in 0..Cardinality(FileNames) } :
        \A i, j \in 1..Len(l) : i # j => l[i] # l[j] }

TemplateNames == { "base", "index", "blog", "post", "projects", "about", "tag" }

\* The files of src/assets that copyAssets copies.
AssetFiles == { "/assets/css/styles.css", "/assets/js/main.js" }

\* A file that an earlier build left in the build directory.
StaleFile == "/posts/old.html"

\* ------------------------------------------------------------------- state

VARIABLES
    pc,         \* the stage main() is at, or "done" / "failed"
    stages,     \* the stages completed so far, in order
    buildDir,   \* the files of BUILD_DIR: path -> content
    templates,  \* the names of the templates read so far
    files,      \* the listing of POSTS_DIR
    posts,      \* the posts loaded (sorted once loadPosts returned)
    pages,      \* the page list of main (file, lastmod)
    tagsMap,    \* the tag map (an object: properties in enumeration order)
    idx,        \* the position of the loop of buildPostPages / buildTagPages
    sitemap,    \* the <url> entries written to sitemap.xml
    rss,        \* the items written to rss.xml
    error,      \* the error that main().catch received
    console,    \* the lines printed
    exitCode,   \* the exit code of the process
    parsed,     \* the metadata header of the post file read last
    current,    \* related-post selection: the position of the current post
    related,    \* related-post selection: the result of findRelatedPosts
    ads,        \* copyAdsFile: "pending", then "absent", "copied" or "failed"
    stale,      \* the paths an earlier build left in BUILD_DIR
    call,       \* a function applied alone: its arguments
    result      \* a function applied alone: the value it returned

vars == << pc, stages, buildDir, templates, files, posts, pages, tagsMap, idx,
           sitemap, rss, error, console, exitCode, parsed, current, related,
           ads, stale, call, result >>

\* The order of the stages of main().
StageOrder ==
    << "clean", "templates", "posts", "assets", "ads", "home", "blog", "projects", "about",
       "postPages", "tagPages", "searchIndex", "tagsJson", "sitemap", "robots", "rss" >>

Content(kind, of, rel) == [kind |-> kind, of |-> of, rel |-> rel]

\* The build directory after writing content to path
WriteFile(dir, path, content) == (path :> content) @@ dir

BuildTime == [src |-> "build", date |-> 0]

PostTime(post) == [src |-> "post", date |-> post.date]

\* The page list main() creates
RootPages ==
    << [file |-> "/index.html", lastmod |-> BuildTime],
       [file |-> "/blog.html", lastmod |-> BuildTime],
       [file |-> "/projects.html", lastmod |-> BuildTime],
       [file |-> "/about.html", lastmod |-> BuildTime] >>

Init ==
    /\ pc = "clean"
    /\ stages = << >>
    /\ buildDir \in { << >>, (StaleFile :> Content("stale", "", << >>)) }
    /\ templates = {}
    /\ files = << >>
    /\ posts = << >>
    /\ pages = << >>
    /\ tagsMap = << >>
    /\ idx = 0
    /\ sitemap = << >>
    /\ rss = << >>
    /\ error = NoError
    /\ console = << >>
    /\ exitCode = 0
    /\ parsed = SomeValidData
    /\ current = 0
    /\ related = << >>
    /\ ads = "pending"
    /\ stale = DOMAIN buildDir
    /\ call = << >>
    /\ result = << >>

\* main().catch: console.error(error); process.exit(1)
Catch(err) ==
    /\ pc' = "failed"
    /\ error' = err
    /\ console' = Append(console, "error")
    /\ exitCode' = 1

FsError(op) == [kind |-> "fs", file |-> op, fields |-> << >>]

\* A stage completed: main() goes on to the next one
Advance(stage, next) ==
    /\ pc' = next
    /\ stages' = Append(stages, stage)
    /\ UNCHANGED << error, console, exitCode >>

\* ---------------------------------------------------------------- pipeline

\* The build directory with every path of paths holding content
AddFiles(dir, paths, content) ==
    [p \in DOMAIN dir \cup paths |-> IF p \in paths THEN content ELSE dir[p]]

\* The build directory with only the paths of kept left
KeepFiles(dir, kept) == [p \in kept |-> dir[p]]

\* Mutant: the build directory is created and not emptied.
CleanBuildDir_OnlyMakesDir ==
    /\ pc = "clean"
    /\ UNCHANGED << templates, files, posts, pages, tagsMap, idx, sitemap, rss, current, related, parsed, ads, stale, call, result >>
    /\ \/ /\ buildDir' = buildDir
          /\ Advance("clean", "templates")
       \/ /\ \E kept \in SUBSET DOMAIN buildDir : buildDir' = KeepFiles(buildDir, kept)
          /\ Catch(FsError("rm"))
          /\ UNCHANGED stages

\* cleanBuildDir: fs.rm of BUILD_DIR, then fs.mkdir
CleanBuildDir ==
    /\ pc = "clean"
    /\ UNCHANGED << templates, files, posts, pages, tagsMap, idx, sitemap, rss, current, related, parsed, ads, stale, call, result >>
    /\ \/ /\ buildDir' = KeepFiles(buildDir, {})
          /\ Advance("clean", "templates")
       \/ /\ \E kept \in SUBSET DOMAIN buildDir : buildDir' = KeepFiles(buildDir, kept)
          /\ Catch(FsError("rm"))
          /\ UNCHANGED stages

\* Mutant: loadTemplates resolves when the first read completes.
LoadTemplates_ResolvesOnFirstRead ==
    /\ pc = "templates"
    /\ UNCHANGED << buildDir, files, posts, pages, tagsMap, idx, sitemap, rss, current, related, parsed, ads, stale, call, result >>
    /\ \/ \E name \in TemplateNames \ templates :
            /\ templates' = templates \cup { name }
            /\ IF templates' # {}
               THEN Advance("templates", "posts")
               ELSE UNCHANGED << pc, stages, error, console, exitCode >>
       \/ /\ Catch(FsError("readFile"))
          /\ UNCHANGED << templates, stages >>

\* loadTemplates: one of the concurrent fs.readFile calls completes; Promise.all
\* resolves with the last one and rejects with the first failure.
LoadTemplates ==
    /\ pc = "templates"
    /\ UNCHANGED << buildDir, files, posts, pages, tagsMap, idx, sitemap, rss, current, related, parsed, ads, stale, call, result >>
    /\ \/ \E name \in TemplateNames \ templates :
            /\ templates' = templates \cup { name }
            /\ IF templates' = TemplateNames
               THEN Advance("templates", "posts")
               ELSE UNCHANGED << pc, stages, error, console, exitCode >>
       \/ /\ Catch(FsError("readFile"))
          /\ UNCHANGED << templates, stages >>

\* loadPosts returned ps: the sort, then the page list of main()
PostsLoaded(ps) ==
    /\ posts' = SortPosts(ps)
    /\ pages' = RootPages
    /\ idx' = 0
    /\ Advance("posts", "assets")

\* Mutant: the assets are copied before the posts are loaded.
ReadPostsDir_CopiesAssetsFirst ==
    /\ pc = "posts" /\ idx = 0
    /\ buildDir' = AddFiles(buildDir, AssetFiles, Content("asset", "", << >>))
    /\ UNCHANGED << templates, tagsMap, sitemap, rss, current, related, parsed, ads, stale, call, result >>
    /\ \/ \E listing \in Listings :
            /\ files' = listing
            /\ IF listing = << >>
               THEN PostsLoaded(<< >>)
               ELSE /\ idx' = 1
                    /\ UNCHANGED << posts, pages, pc, stages, error, console, exitCode >>
       \/ /\ Catch(FsError("readdir"))
          /\ UNCHANGED << files, posts, pages, idx, stages >>

\* loadPosts: fs.readdir
ReadPostsDir ==
    /\ pc = "posts" /\ idx = 0
    /\ UNCHANGED << buildDir, templates, tagsMap, sitemap, rss, current, related, parsed, ads, stale, call, result >>
    /\ \/ \E listing \in Listings :
            /\ files' = listing
            /\ IF listing = << >>
               THEN PostsLoaded(<< >>)
               ELSE /\ idx' = 1
                    /\ UNCHANGED << posts, pages, pc, stages, error, console, exitCode >>
       \/ /\ Catch(FsError("readdir"))
          /\ UNCHANGED << files, posts, pages, idx, stages >>

\* loadPosts: one iteration of the loop over the files
ReadPost ==
    /\ pc = "posts" /\ idx > 0
    /\ UNCHANGED << buildDir, templates, files, tagsMap, sitemap, rss, current, related, ads, stale, call, result >>
    /\ \/ \E data \in FileData :
            /\ parsed' = data
            /\ IF PostError(files[idx], data) # NoError
               THEN /\ Catch(PostError(files[idx], data))
                    /\ UNCHANGED << posts, pages, idx, stages >>
               ELSE IF idx = Len(files)
               THEN PostsLoaded(Append(posts, MakePost(files[idx], data)))
               ELSE /\ posts' = Append(posts, MakePost(files[idx], data))
                    /\ idx' = idx + 1
                    /\ UNCHANGED << pages, pc, stages, error, console, exitCode >>
       \/ /\ Catch(FsError("readFile"))
          /\ UNCHANGED << posts, pages, idx, stages, parsed >>

\* copyAssets: fs.cp of the assets tree, which fails after any part of it
CopyAssets ==
    /\ pc = "assets"
    /\ UNCHANGED << templates, files, posts, pages, tagsMap, idx, sitemap, rss, current, related, parsed, ads, stale, call, result >>
    /\ \/ /\ buildDir' = AddFiles(buildDir, AssetFiles, Content("asset", "", << >>))
          /\ Advance("assets", "ads")
       \/ /\ \E copied \in (SUBSET AssetFiles) \ { AssetFiles } :
               buildDir' = AddFiles(buildDir, copied, Content("asset", "", << >>))
          /\ Catch(FsError("cp"))
          /\ UNCHANGED stages

\* The outcomes of copyAdsFile: ads.txt is absent (fs.access rejects), it is
\* copied, or fs.access / fs.copyFile fails for another reason.
AdsOutcomes == { "absent", "copied", "failed" }

\* copyAdsFile, whose catch swallows every error (ads.txt is optional), then
\* the tag map main() computes
CopyAdsFile ==
    /\ pc = "ads"
    /\ UNCHANGED << templates, files, posts, pages, idx, sitemap, rss, current, related, parsed, stale, call, result >>
    /\ \E outcome \in AdsOutcomes :
          /\ ads' = outcome
          /\ buildDir' = IF outcome = "copied"
                         THEN WriteFile(buildDir, "/ads.txt", Content("ads", "", << >>))
                         ELSE buildDir
    /\ tagsMap' = buildTagsMap(posts)
    /\ Advance("ads", "home")

\* writeHtml / writeJson / fs.writeFile of one file that ends a stage
WriteStage(stage, next, path, content) ==
    /\ pc = stage
    /\ UNCHANGED << templates, files, posts, tagsMap, current, related, parsed, ads, stale, call, result >>
    /\ \/ /\ buildDir' = WriteFile(buildDir, path, content)
          /\ Advance(stage, next)
       \/ /\ Catch(FsError("writeFile"))
          /\ UNCHANGED << buildDir, stages >>

\* Mutant: main() goes from the home page to the projects page.
BuildHomePage_SkipsBlog ==
    /\ WriteStage("home", "projects", "/index.html", Content("page", "index", << >>))
    /\ UNCHANGED << pages, idx, sitemap, rss >>

BuildHomePage ==
    /\ WriteStage("home", "blog", "/index.html", Content("page", "index", << >>))
    /\ UNCHANGED << pages, idx, sitemap, rss >>

BuildBlogPage ==
    /\ WriteStage("blog", "projects", "/blog.html", Content("page", "blog", << >>))
    /\ UNCHANGED << pages, idx, sitemap, rss >>

BuildProjectsPage ==
    /\ WriteStage("projects", "about", "/projects.html", Content("page", "projects", << >>))
    /\ UNCHANGED << pages, idx, sitemap, rss >>

\* buildAboutPage; with no post the loop of buildPostPages ends at once
BuildAboutPage ==
    /\ pc = "about"
    /\ UNCHANGED << templates, files, posts, pages, tagsMap, sitemap, rss, current, related, parsed, ads, stale, call, result >>
    /\ \/ /\ buildDir' = WriteFile(buildDir, "/about.html", Content("page", "about", << >>))
          /\ IF Len(posts) = 0
             THEN /\ pc' = "tagPages"
                  /\ stages' = stages \o << "about", "postPages" >>
                  /\ idx' = 0
             ELSE /\ pc' = "postPages"
                  /\ stages' = Append(stages, "about")
                  /\ idx' = 1
          /\ UNCHANGED << error, console, exitCode >>
       \/ /\ Catch(FsError("writeFile"))
          /\ UNCHANGED << buildDir, stages, idx >>

Titles(ps) == [i \in 1..Len(ps) |-> ps[i].title]

\* The file of the page of a post, under BUILD_DIR and in the page list
PostPageFile(post) == "/posts/" \o Str(post.slug) \o ".html"

\* buildPostPages: one iteration of the loop over the posts
BuildPostPages ==
    /\ pc = "postPages"
    /\ UNCHANGED << templates, files, posts, tagsMap, sitemap, rss, current, related, parsed, ads, stale, call, result >>
    /\ \/ /\ buildDir' = WriteFile(buildDir, PostPageFile(posts[idx]),
                            Content("post", posts[idx].title,
                                    Titles(findRelatedPosts(posts[idx], posts))))
          /\ pages' = Append(pages, [file |-> PostPageFile(posts[idx]),
                                     lastmod |-> PostTime(posts[idx])])
          /\ IF idx = Len(posts)
             THEN /\ idx' = 0
                  /\ Advance("postPages", "tagPages")
             ELSE /\ idx' = idx + 1
                  /\ UNCHANGED << pc, stages, error, console, exitCode >>
       \/ /\ Catch(FsError("writeFile"))
          /\ UNCHANGED << buildDir, pages, idx, stages >>

\* buildTagPages: fs.mkdir of the tags directory
MakeTagsDir ==
    /\ pc = "tagPages" /\ idx = 0
    /\ UNCHANGED << buildDir, templates, files, posts, pages, tagsMap, sitemap, rss,
                    current, related, parsed, ads, stale, call, result >>
    /\ \/ IF Len(tagsMap) = 0
          THEN /\ idx' = 0
               /\ Advance("tagPages", "searchIndex")
          ELSE /\ idx' = 1
               /\ UNCHANGED << pc, stages, error, console, exitCode >>
       \/ /\ Catch(FsError("mkdir"))
          /\ UNCHANGED << idx, stages >>

\* The file of the page of a tag, under BUILD_DIR and in the page list
TagPageFile(tagName) == "/tags/" \o Str(slugify(tagName)) \o ".html"

\* buildTagPages: one iteration of the loop over the entries of the tag map
BuildTagPages ==
    /\ pc = "tagPages" /\ idx > 0
    /\ UNCHANGED << templates, files, posts, tagsMap, sitemap, rss, current, related, parsed, ads, stale, call, result >>
    /\ \/ /\ buildDir' = WriteFile(buildDir, TagPageFile(tagsMap[idx].key),
                            Content("tag", Str(tagsMap[idx].key), Titles(tagsMap[idx].val)))
          /\ pages' = Append(pages, [file |-> TagPageFile(tagsMap[idx].key),
                                     lastmod |-> BuildTime])
          /\ IF idx = Len(tagsMap)
             THEN /\ idx' = 0
                  /\ Advance("tagPages", "searchIndex")
             ELSE /\ idx' = idx + 1
                  /\ UNCHANGED << pc, stages, error, console, exitCode >>
       \/ /\ Catch(FsError("writeFile"))
          /\ UNCHANGED << buildDir, pages, idx, stages >>

WriteSearchIndex ==
    /\ WriteStage("searchIndex", "tagsJson", "/search-index.json",
                  Content("json", "search-index", Titles(posts)))
    /\ UNCHANGED << pages, idx, sitemap, rss >>

WriteTagsJson ==
    /\ WriteStage("tagsJson", "sitemap", "/tags.json",
                  Content("json", "tags", [i \in 1..Len(tagsMap) |-> Str(tagsMap[i].key)]))
    /\ UNCHANGED << pages, idx, sitemap, rss >>

writeSitemap ==
    /\ WriteStage("sitemap", "robots", "/sitemap.xml", Content("xml", "sitemap", << >>))
    /\ sitemap' = IF pc' = "robots" THEN SitemapEntries(pages) ELSE sitemap
    /\ UNCHANGED << pages, idx, rss >>

writeRobots ==
    /\ WriteStage("robots", "rss", "/robots.txt", Content("txt", "robots", << >>))
    /\ UNCHANGED << pages, idx, sitemap, rss >>

RssMax == 20

\* Mutant: the feed lists every post.
writeRss_NoLimit ==
    /\ pc = "rss"
    /\ UNCHANGED << templates, files, posts, pages, tagsMap, idx, sitemap, current, related, parsed, ads, stale, call, result >>
    /\ \/ /\ buildDir' = WriteFile(buildDir, "/rss.xml", Content("xml", "rss", << >>))
          /\ rss' = Titles(posts)
          /\ pc' = "done"
          /\ stages' = Append(stages, "rss")
          /\ console' = Append(console, "Build finalizado")
          /\ UNCHANGED << error, exitCode >>
       \/ /\ Catch(FsError("writeFile"))
          /\ UNCHANGED << buildDir, rss, stages >>

\* writeRss, then the summary main() prints
writeRss ==
    /\ pc = "rss"
    /\ UNCHANGED << templates, files, posts, pages, tagsMap, idx, sitemap, current, related, parsed, ads, stale, call, result >>
    /\ \/ /\ buildDir' = WriteFile(buildDir, "/rss.xml", Content("xml", "rss", << >>))
          /\ rss' = Titles(Take(posts, RssMax))
          /\ pc' = "done"
          /\ stages' = Append(stages, "rss")
          /\ console' = Append(console, "Build finalizado")
          /\ UNCHANGED << error, exitCode >>
       \/ /\ Catch(FsError("writeFile"))
          /\ UNCHANGED << buildDir, rss, stages >>

Next ==
    \/ CleanBuildDir
    \/ LoadTemplates
    \/ ReadPostsDir
    \/ ReadPost
    \/ CopyAssets
    \/ CopyAdsFile
    \/ BuildHomePage
    \/ BuildBlogPage
    \/ BuildProjectsPage
    \/ BuildAboutPage
    \/ BuildPostPages
    \/ MakeTagsDir
    \/ BuildTagPages
    \/ WriteSearchIndex
    \/ WriteTagsJson
    \/ writeSitemap
    \/ writeRobots
    \/ writeRss

Spec == Init /\ [][Next]_vars

\* ------------------------------------------- related-post selection alone

\* findRelatedPosts applied to every post of every loaded collection: the
\* posts directory holds any of four files (two of them with the same slug),
\* listed in directory order, with any category, date and tags.
RelatedDirectory == << << "a", " ", "b" >>, << "a", "-", "b" >>, << "c" >>, << "d" >> >>

Categories == { "Tech", "Other" }

RelatedTagLists == { << << "x" >>, << "y" >> >>, << << "x" >> >>, << << "z" >> >> }

RelatedData ==
    { [fields |-> Range(REQUIRED_FRONTMATTER_FIELDS), date |-> d, category |-> c,
       tagsIsArray |-> TRUE, tags |-> t] :
         d \in 1..MaxDate, c \in Categories, t \in RelatedTagLists }

\* The files of the directory at the positions of present, in directory order
ListingOf(present) ==
    SeqFilter(RelatedDirectory, { RelatedDirectory[i] : i \in present })

\* loadPosts as a whole, for a listing and the header of each file
loadPosts(listing, datas) ==
    SortPosts([i \in 1..Len(listing) |-> MakePost(listing[i], datas[i])])

InitRelated ==
    /\ pc = "relatedLoad"
    /\ stages = << >>
    /\ buildDir = << >>
    /\ templates = {}
    /\ files = << >>
    /\ posts = << >>
    /\ pages = << >>
    /\ tagsMap = << >>
    /\ idx = 0
    /\ sitemap = << >>
    /\ rss = << >>
    /\ error = NoError
    /\ console = << >>
    /\ exitCode = 0
    /\ parsed = SomeValidData
    /\ current = 0
    /\ related = << >>
    /\ ads = "pending"
    /\ stale = {}
    /\ call = << >>
    /\ result = << >>

RelatedLoad ==
    /\ pc = "relatedLoad"
    /\ \E present \in (SUBSET (1..Len(RelatedDirectory))) \ { {} } :
         \E datas \in [1..Cardinality(present) -> RelatedData] :
            /\ files' = ListingOf(present)
            /\ posts' = loadPosts(files', datas)
    /\ pc' = "relatedFind"
    /\ UNCHANGED << stages, buildDir, templates, pages, tagsMap, idx, sitemap, rss, error,
                    console, exitCode, current, related, parsed, ads, stale, call, result >>

RelatedFind ==
    /\ pc = "relatedFind"
    /\ \E i \in 1..Len(posts) :
          /\ current' = i
          /\ related' = findRelatedPosts(posts[i], posts)
    /\ pc' = "relatedDone"
    /\ UNCHANGED << stages, buildDir, templates, files, posts, pages, tagsMap, idx, sitemap,
                    rss, error, console, exitCode, parsed, ads, stale, call, result >>

NextRelated == RelatedLoad \/ RelatedFind

SpecRelated == InitRelated /\ [][NextRelated]_vars

\* ------------------------------------------------ functions applied alone

\* The state of main() while a function is applied alone
mainVars ==
    << stages, buildDir, templates, files, posts, pages, tagsMap, idx, sitemap, rss, error,
       console, exitCode, parsed, current, related, ads, stale >>

\* main() has not started
NotStarted ==
    /\ stages = << >>
    /\ buildDir = << >>
    /\ templates = {}
    /\ files = << >>
    /\ posts = << >>
    /\ pages = << >>
    /\ tagsMap = << >>
    /\ idx = 0
    /\ sitemap = << >>
    /\ rss = << >>
    /\ error = NoError
    /\ console = << >>
    /\ exitCode = 0
    /\ parsed = SomeValidData
    /\ current = 0
    /\ related = << >>
    /\ ads = "pending"
    /\ stale = {}

\* ---------------------------------------------------------- renderTemplate

\* The longest template, in characters
MaxTemplate == 6

\* A template is a sequence of characters; "constructor" stands for the
\* eleven letters of that word.
TemplateChars == { "{", "}", " ", "a", "constructor" }

\* The characters of the names of the placeholders; a word stands for its
\* letters.
NameChars == { "a", "constructor", "content", "postContent", "metaTitle" }

\* [a-zA-Z0-9_]
IsNameChar(c) == c \in NameChars

\* \s
IsSpace(c) == c = " "

Undefined == [type |-> "undefined"]

Null == [type |-> "null"]

\* The values a property of params may have
ParamValues == { Undefined, Null, [type |-> "number", val |-> "0"], [type |-> "string", val |-> "v"] }

\* The properties every object literal inherits from Object.prototype
ObjectPrototype ==
    << [key |-> << "constructor" >>, val |-> [type |-> "function", val |-> "Object"]] >>

\* params[key]: the own property, else the inherited one, else undefined
GetProperty(params, key) ==
    IF ObjHas(params, key) THEN ObjGet(params, key)
    ELSE IF ObjHas(ObjectPrototype, key) THEN ObjGet(ObjectPrototype, key)
    ELSE Undefined

\* String(value)
StringOf(value) ==
    CASE value.type = "string" -> value.val
      [] value.type = "number" -> value.val
      [] value.type = "function" -> "function " \o value.val \o "() { [native code] }"
      [] value.type = "null" -> "null"
      [] OTHER -> "undefined"

\* The first position from i on that does not hold a character of the class
RECURSIVE SkipWhile(_, _, _)
SkipWhile(template, i, class) ==
    IF i <= Len(template) /\ template[i] \in class
    THEN SkipWhile(template, i + 1, class)
    ELSE i

\* A match of {{\s*([a-zA-Z0-9_]+)\s*}} that starts at position i: the
\* positions of its key and the position after it, or no match
MatchAt(template, i) ==
    LET nameFrom == SkipWhile(template, i + 2, { " " })
        nameTo == SkipWhile(template, nameFrom, NameChars)
        close == SkipWhile(template, nameTo, { " " })
    IN  IF /\ i + 1 <= Len(template)
           /\ template[i] = "{" /\ template[i + 1] = "{"
           /\ nameTo > nameFrom
           /\ close + 1 <= Len(template)
           /\ template[close] = "}" /\ template[close + 1] = "}"
        THEN [found |-> TRUE, key |-> SubSeq(template, nameFrom, nameTo - 1), end |-> close + 2]
        ELSE [found |-> FALSE, key |-> << >>, end |-> i + 1]

\* The replacement function of renderTemplate
Replacement(params, key) ==
    LET value == GetProperty(params, key)
    IN  IF value = Undefined \/ value = Null THEN "" ELSE StringOf(value)

\* template.replace(/.../g, ...) from position i on: the matches from left to
\* right, the text between them copied
RECURSIVE ReplaceFrom(_, _, _)
ReplaceFrom(template, params, i) ==
    IF i > Len(template) THEN ""
    ELSE LET m == MatchAt(template, i)
         IN  IF m.found
             THEN Replacement(params, m.key) \o ReplaceFrom(template, params, m.end)
             ELSE template[i] \o ReplaceFrom(template, params, i + 1)

renderTemplate(template, params) == ReplaceFrom(template, params, 1)

Templates == UNION { [1..n -> TemplateChars] : n \in 0..MaxTemplate }

\* The mappings: object literals with or without a property a
ParamObjects ==
    { << >> } \cup { << [key |-> << "a" >>, val |-> v] >> : v \in ParamValues }

InitTemplate ==
    /\ pc = "renderTemplate"
    /\ NotStarted
    /\ call \in { [template |-> t, params |-> p] : t \in Templates, p \in ParamObjects }
    /\ result = << >>

RenderTemplate ==
    /\ pc = "renderTemplate"
    /\ result' = renderTemplate(call.template, call.params)
    /\ pc' = "rendered"
    /\ UNCHANGED << call, mainVars >>

NextTemplate == RenderTemplate

SpecTemplate == InitTemplate /\ [][NextTemplate]_vars

\* ------------------------------------------------------------ slugify alone

\* The longest free ending of a file name, in characters
MaxSlugTail == 3

\* The characters of the free ending of a file name
SlugInputChars == { "a", "9", "A", "e_acute", "-", " " }

\* The file names slugify is applied to: a run of the letter a (none, or so
\* many that the slug reaches SlugMaxLen) and a free ending
SlugInputs ==
    { [i \in 1..n |-> "a"] \o tail :
        n \in { 0 } \cup { SlugMaxLen - k : k \in 0..MaxSlugTail },
        tail \in UNION { [1..m -> SlugInputChars] : m \in 0..MaxSlugTail } }

InitSlug ==
    /\ pc = "slugify"
    /\ NotStarted
    /\ call \in SlugInputs
    /\ result = << >>

\* const slug = slugify(path.basename(file, '.md'))
Slugify ==
    /\ pc = "slugify"
    /\ result' = slugify(call)
    /\ pc' = "slugified"
    /\ UNCHANGED << call, mainVars >>

NextSlug == Slugify

SpecSlug == InitSlug /\ [][NextSlug]_vars

\* ----------------------------------------------------------- isExternalLink

\* The most slashes a link target has after its scheme
MaxSlashes == 2

\* A link target is a sequence of lexemes: a blank, a scheme with its colon,
\* a slash, a hash, the host of the site, another host, a path segment or
\* fragment.
SchemeLexemes == { "https:", "http:", "mailto:", "MAILTO:", "tel:", "javascript:" }

HostLexemes == { "site", "other" }

\* SITE.origin and new URL(SITE.origin).origin
SiteOrigin == [scheme |-> "https:", host |-> << "site" >>]

\* The origin of a URL whose scheme is not http or https
OpaqueOrigin == [scheme |-> "null", host |-> << >>]

\* The scheme of a URL is stored in lowercase; /i of the regular expression
LowerScheme(lexeme) == IF lexeme = "MAILTO:" THEN "mailto:" ELSE lexeme

\* The slashes a text starts with are skipped
RECURSIVE SkipSlashes(_)
SkipSlashes(text) ==
    IF text # << >> /\ Head(text) = "/" THEN SkipSlashes(Tail(text)) ELSE text

\* The host of an authority: the lexemes up to the first slash or hash
RECURSIVE HostOf(_)
HostOf(text) ==
    IF text = << >> \/ Head(text) \in { "/", "#" } THEN << >>
    ELSE << Head(text) >> \o HostOf(Tail(text))

\* The URL parser at the authority of a URL of an http(s) scheme: it fails
\* on an empty host and on a host with a character no host may have
ParseAuthority(scheme, text) ==
    LET host == HostOf(SkipSlashes(text))
    IN  IF host = << >> \/ Range(host) \ HostLexemes # {}
        THEN [failure |-> TRUE,  origin |-> OpaqueOrigin]
        ELSE [failure |-> FALSE, origin |-> [scheme |-> scheme, host |-> host]]

\* new URL(value, base): whether it throws, and the origin of the URL
ParseUrl(value, base) ==
    IF value # << >> /\ Head(value) \in SchemeLexemes
    THEN LET scheme == LowerScheme(Head(value))
             rest == Tail(value)
         IN  IF scheme \notin { "https:", "http:" }
             THEN [failure |-> FALSE, origin |-> OpaqueOrigin]
             ELSE IF scheme = base.scheme /\ ~(Len(rest) >= 2 /\ rest[1] = "/" /\ rest[2] = "/")
             THEN [failure |-> FALSE, origin |-> base]
             ELSE ParseAuthority(scheme, rest)
    ELSE IF Len(value) >= 2 /\ value[1] = "/" /\ value[2] = "/"
    THEN ParseAuthority(base.scheme, value)
    ELSE [failure |-> FALSE, origin |-> base]

\* tokens[idx].attrGet('href') of a link without that attribute
NoHref == [attr |-> FALSE, value |-> << >>]

isExternalLink(href) ==
    IF ~href.attr \/ href.value = << >> THEN FALSE
    ELSE LET value == Trim(href.value)
         IN  IF value = << >> \/ Head(value) = "#" \/ Head(value) = "/" THEN FALSE
             ELSE IF LowerScheme(Head(value)) \in { "mailto:", "tel:", "javascript:" } THEN FALSE
             ELSE LET linkUrl == ParseUrl(value, SiteOrigin)
                  IN  IF linkUrl.failure THEN FALSE ELSE linkUrl.origin # SiteOrigin

\* The link targets of the Markdown sources: no href, or blanks, a scheme,
\* slashes, a host, a path or fragment, each of them or not
LinkTargets ==
    { NoHref } \cup
    { [attr |-> TRUE, value |-> blank \o scheme \o [i \in 1..n |-> "/"] \o host \o tail] :
        blank \in { << >>, << " " >> },
        scheme \in { << >> } \cup { << s >> : s \in SchemeLexemes },
        n \in 0..MaxSlashes,
        host \in { << >> } \cup { << h >> : h \in HostLexemes },
        tail \in { << >>, << "/", "p" >>, << "#", "f" >>, << "p" >> } }

InitLink ==
    /\ pc = "link_open"
    /\ NotStarted
    /\ call \in LinkTargets
    /\ result = << >>

\* md.renderer.rules.link_open: the attributes it sets on the link
LinkOpen ==
    /\ pc = "link_open"
    /\ result' = IF isExternalLink(call)
                 THEN [target |-> "_blank", rel |-> "noopener noreferrer"]
                 ELSE [target |-> "", rel |-> ""]
    /\ pc' = "link_rendered"
    /\ UNCHANGED << call, mainVars >>

NextLink == LinkOpen

SpecLink == InitLink /\ [][NextLink]_vars

\* ------------------------------------------------------- a build, repeated

\* buildPostPages as a whole: the loop from position i on
RECURSIVE WritePostPages(_, _, _)
WritePostPages(dir, ps, i) ==
    IF i > Len(ps) THEN dir
    ELSE WritePostPages(WriteFile(dir, PostPageFile(ps[i]),
                                  Content("post", ps[i].title,
                                          Titles(findRelatedPosts(ps[i], ps)))),
                        ps, i + 1)

\* buildTagPages as a whole: the loop from position i on
RECURSIVE WriteTagPages(_, _, _)
WriteTagPages(dir, map, i) ==
    IF i > Len(map) THEN dir
    ELSE WriteTagPages(WriteFile(dir, TagPageFile(map[i].key),
                                 Content("tag", Str(map[i].key), Titles(map[i].val))),
                       map, i + 1)

\* The stages of main() after loadPosts as a whole, none of them failing and
\* ads.txt absent: the build directory they leave for the posts ps
OutputTree(ps) ==
    LET map == buildTagsMap(ps)
        assets == AddFiles(<< >>, AssetFiles, Content("asset", "", << >>))
        home == WriteFile(assets, "/index.html", Content("page", "index", << >>))
        blog == WriteFile(home, "/blog.html", Content("page", "blog", << >>))
        projects == WriteFile(blog, "/projects.html", Content("page", "projects", << >>))
        about == WriteFile(projects, "/about.html", Content("page", "about", << >>))
        postPages == WritePostPages(about, ps, 1)
        tagPages == WriteTagPages(postPages, map, 1)
        searchIndex == WriteFile(tagPages, "/search-index.json",
                                 Content("json", "search-index", Titles(ps)))
        tagsJson == WriteFile(searchIndex, "/tags.json",
                              Content("json", "tags", [i \in 1..Len(map) |-> Str(map[i].key)]))
        sitemapXml == WriteFile(tagsJson, "/sitemap.xml", Content("xml", "sitemap", << >>))
        robots == WriteFile(sitemapXml, "/robots.txt", Content("txt", "robots", << >>))
    IN  WriteFile(robots, "/rss.xml", Content("xml", "rss", << >>))

\* The orders in which fs.readdir may list n files
ListingOrders(n) == { f \in [1..n -> 1..n] : \A i, j \in 1..n : i # j => f[i] # f[j] }

InitRebuild ==
    /\ pc = "build"
    /\ NotStarted
    /\ call = << >>
    /\ result = << >>

\* A build of a posts directory that holds valid post files
FirstBuild ==
    /\ pc = "build"
    /\ \E listing \in Listings \ { << >> } :
         \E datas \in [1..Len(listing) -> ValidData \cup BlankTagsData] :
            /\ call' = [listing |-> listing, datas |-> datas]
            /\ files' = listing
            /\ posts' = loadPosts(listing, datas)
            /\ buildDir' = OutputTree(posts')
    /\ pc' = "rebuild"
    /\ UNCHANGED << stages, templates, pages, tagsMap, idx, sitemap, rss, error, console,
                    exitCode, parsed, current, related, ads, stale, result >>

\* A second build of the same directory, which fs.readdir lists in any order
Rebuild ==
    /\ pc = "rebuild"
    /\ \E order \in ListingOrders(Len(files)) :
         LET listing == [i \in 1..Len(files) |-> call.listing[order[i]]]
             datas == [i \in 1..Len(files) |-> call.datas[order[i]]]
         IN  /\ call' = [listing |-> listing, datas |-> datas]
             /\ result' = OutputTree(loadPosts(listing, datas))
    /\ pc' = "rebuilt"
    /\ UNCHANGED mainVars

NextRebuild == FirstBuild \/ Rebuild

SpecRebuild == InitRebuild /\ [][NextRebuild]_vars

\* ----------------------------------------------------------- the RSS feed

\* The most post files of the posts directory of a feed
MaxFeedPosts == 22

\* The post file number i: its name has i letters
FeedFile(i) == [k \in 1..i |-> "a"]

\* The header of a post file of a feed, of an early or a late publish date
FeedData(late) == [SomeValidData EXCEPT !.date = IF late THEN MaxDate ELSE 1]

InitRss ==
    /\ pc = "loadPosts"
    /\ NotStarted
    /\ call = << >>
    /\ result = << >>

\* loadPosts for a directory of n post files, at most two of them of a late
\* publish date, then main() up to writeRss
FeedPostsLoaded ==
    /\ pc = "loadPosts"
    /\ \E n \in 0..MaxFeedPosts :
         \E late \in { s \in SUBSET (1..n) : Cardinality(s) <= 2 } :
            /\ files' = [i \in 1..n |-> FeedFile(i)]
            /\ posts' = loadPosts(files', [i \in 1..n |-> FeedData(i \in late)])
    /\ pc' = "rss"
    /\ UNCHANGED << stages, buildDir, templates, pages, tagsMap, idx, sitemap, rss, error,
                    console, exitCode, parsed, current, related, ads, stale, call, result >>

NextRss == FeedPostsLoaded \/ writeRss

SpecRss == InitRss /\ [][NextRss]_vars

\* ---------------------------------------------------- the search widget

\* buildSearchIndex: the records of search-index.json (title: its
\* characters, for the term match)
buildSearchIndex(ps) ==
    [i \in 1..Len(ps) |->
        [title |-> ps[i].file, tags |-> ps[i].tags, category |-> ps[i].category,
         url |-> ps[i].url]]

\* The values the search input may hold
SearchTerms == { << >>, << " " >>, << "a" >>, << "x" >>, << "c", " " >> }

\* A text holds the term, whatever the case of the letters
HasInfix(text, term) ==
    \E k \in 0..(Len(text) - Len(term)) :
        \A n \in 1..Len(term) : Lower(text[k + n]) = Lower(term[n])

\* Fuse: the term matches the title or a tag of the record
FuseMatches(term, record) ==
    \/ HasInfix(record.title, term)
    \/ \E n \in 1..Len(record.tags) : HasInfix(record.tags[n], term)

\* fuse.search(term).map((item) => item.item)
FuseSearch(index, term) ==
    SeqFilter(index, { r \in Range(index) : FuseMatches(term, r) })

\* render: the cards and the count label
render(ps) == [cards |-> ps, count |-> Len(ps)]

\* applyFilters for the values of the input and of the two selects
applyFilters(dom) ==
    LET term == Trim(dom.input)
        byCategory == IF dom.category # ""
                      THEN SeqFilter(dom.index,
                                     { r \in Range(dom.index) : r.category = dom.category })
                      ELSE dom.index
        byTag == IF dom.tag # << >>
                 THEN SeqFilter(byCategory, { r \in Range(byCategory) : dom.tag \in Range(r.tags) })
                 ELSE byCategory
        scopedUrls == { r.url : r \in Range(byTag) }
        found == FuseSearch(dom.index, term)
    IN  render(IF term # << >>
               THEN SeqFilter(found, { r \in Range(found) : r.url \in scopedUrls })
               ELSE byTag)

\* The options of the category select and of the tag select of the blog page
CategoryOptions(index) == { "" } \cup { r.category : r \in Range(index) }

TagOptions(index) == { << >> } \cup UNION { Range(r.tags) : r \in Range(index) }

InitSearch ==
    /\ pc = "fetching"
    /\ NotStarted
    /\ call = << >>
    /\ result = << >>

\* Promise.all of the two fetches resolves with the documents of a build, or
\* rejects
SearchLoaded ==
    /\ pc = "fetching"
    /\ \/ \E listing \in Listings :
            \E datas \in [1..Len(listing) -> ValidData] :
               /\ call' = [index |-> buildSearchIndex(loadPosts(listing, datas)),
                           input |-> << >>, category |-> "", tag |-> << >>]
               /\ result' = applyFilters(call')
               /\ pc' = "ready"
       \/ /\ result' = [cards |-> << >>, count |-> "Busca indisponivel."]
          /\ pc' = "unavailable"
          /\ UNCHANGED call
    /\ UNCHANGED mainVars

\* The input event of the search input
SearchInput ==
    /\ pc = "ready"
    /\ \E term \in SearchTerms : call' = [call EXCEPT !.input = term]
    /\ result' = applyFilters(call')
    /\ UNCHANGED << pc, mainVars >>

\* The change event of the category select
CategoryChange ==
    /\ pc = "ready"
    /\ \E category \in CategoryOptions(call.index) : call' = [call EXCEPT !.category = category]
    /\ result' = applyFilters(call')
    /\ UNCHANGED << pc, mainVars >>

\* The change event of the tag select
TagChange ==
    /\ pc = "ready"
    /\ \E tag \in TagOptions(call.index) : call' = [call EXCEPT !.tag = tag]
    /\ result' = applyFilters(call')
    /\ UNCHANGED << pc, mainVars >>

NextSearch == SearchLoaded \/ SearchInput \/ CategoryChange \/ TagChange

SpecSearch == InitSearch /\ [][NextSearch]_vars

\* ------------------------------------------- the two passes of a page

\* The longest post body, in characters
MaxBody == 5

\* templates.post and templates.base: text, and the placeholders of the
\* body, of a parameter both passes have (adsClient), of the title and of
\* the content
PostTemplate ==
    << "[", "{", "{", " ", "postContent", " ", "}", "}", "{", "{", "a", "}", "}", "]" >>

BaseTemplate ==
    << "<", "{", "{", "metaTitle", "}", "}", ">",
       "{", "{", " ", "content", " ", "}", "}", "{", "{", "a", "}", "}" >>

\* A string as a value of params
StringValue(string) == [type |-> "string", val |-> string]

\* SITE.adsClient
AdsClient == StringValue("v")

\* The bodies of the posts (post.htmlContent) and their titles
Bodies == UNION { [1..n -> TemplateChars] : n \in 0..MaxBody }

PageTitles == { "t", "{{content}}", "{{ a }}" }

\* defaultParams of renderLayout
DefaultParams ==
    << [key |-> << "metaTitle" >>, val |-> StringValue("Blog")],
       [key |-> << "content" >>, val |-> StringValue("")],
       [key |-> << "a" >>, val |-> AdsClient] >>

\* { ...obj, ...more }
RECURSIVE Spread(_, _)
Spread(obj, more) ==
    IF more = << >> THEN obj
    ELSE Spread(ObjSet(obj, Head(more).key, Head(more).val), Tail(more))

\* renderLayout: the parameters of the page over the default ones
renderLayout(baseTemplate, params) ==
    renderTemplate(baseTemplate, Spread(DefaultParams, params))

\* Mutant: the body is rendered as a template of its own.
PostPageHtml_BodyIsTemplate(body, title) ==
    LET inner == renderTemplate(body, << [key |-> << "a" >>, val |-> AdsClient] >>)
        content == renderTemplate(PostTemplate,
                       << [key |-> << "postContent" >>, val |-> StringValue(inner)],
                          [key |-> << "a" >>, val |-> AdsClient] >>)
    IN  renderLayout(BaseTemplate,
                     << [key |-> << "content" >>, val |-> StringValue(content)],
                        [key |-> << "metaTitle" >>, val |-> StringValue(title)] >>)

\* buildPostPages: the page of a post, the post template first, then the
\* layout with that result as content
PostPageHtml(body, title) ==
    LET content == renderTemplate(PostTemplate,
                       << [key |-> << "postContent" >>, val |-> StringValue(Str(body))],
                          [key |-> << "a" >>, val |-> AdsClient] >>)
    IN  renderLayout(BaseTemplate,
                     << [key |-> << "content" >>, val |-> StringValue(content)],
                        [key |-> << "metaTitle" >>, val |-> StringValue(title)] >>)

InitLayout ==
    /\ pc = "buildPostPage"
    /\ NotStarted
    /\ call \in { [body |-> b, title |-> title] : b \in Bodies, title \in PageTitles }
    /\ result = << >>

BuildPostPage ==
    /\ pc = "buildPostPage"
    /\ result' = PostPageHtml(call.body, call.title)
    /\ pc' = "pageBuilt"
    /\ UNCHANGED << call, mainVars >>

NextLayout == BuildPostPage

SpecLayout == InitLayout /\ [][NextLayout]_vars

\* ------------------------------------------------ the tag map, alone

\* Headers whose tags array names one tag more than once, literally or after
\* String(tag).trim()
RepeatedTagHeaders ==
    { [category |-> "Tech",  tags |-> << << "x" >>, << "x" >> >>],
      [category |-> "Other", tags |-> << << "x" >>, << "y" >>, << " ", "x" >> >>] }

\* The headers of the post files of a tag map: the valid ones, and those of
\* a repeated tag
TagData ==
    ValidData \cup
    { [fields |-> Range(REQUIRED_FRONTMATTER_FIELDS), date |-> 1, category |-> h.category,
       tagsIsArray |-> TRUE, tags |-> h.tags] : h \in RepeatedTagHeaders }

InitTags ==
    /\ pc = "loadPosts"
    /\ NotStarted
    /\ call = << >>
    /\ result = << >>

\* loadPosts for a directory of post files, each of a header of TagData
TagPostsLoaded ==
    /\ pc = "loadPosts"
    /\ \E listing \in Listings :
         \E datas \in [1..Len(listing) -> TagData] :
            /\ files' = listing
            /\ posts' = loadPosts(listing, datas)
    /\ pc' = "tagsMap"
    /\ UNCHANGED << stages, buildDir, templates, pages, tagsMap, idx, sitemap, rss, error,
                    console, exitCode, parsed, current, related, ads, stale, call, result >>

\* const tagsMap = buildTagsMap(posts)
BuildTagsMap ==
    /\ pc = "tagsMap"
    /\ tagsMap' = buildTagsMap(posts)
    /\ idx' = 1
    /\ pc' = "tagPages"
    /\ UNCHANGED << stages, buildDir, templates, files, posts, pages, sitemap, rss, error,
                    console, exitCode, parsed, current, related, ads, stale, call, result >>

\* buildTagPages: the parameters one iteration of the loop hands to the tag
\* template; tagCount is entries.length, tagCards one card for each entry
TagPageParams ==
    /\ pc = "tagPages" /\ idx <= Len(tagsMap)
    /\ result' = Append(result, [tagName  |-> tagsMap[idx].key,
                                 tagCount |-> Len(tagsMap[idx].val),
                                 tagCards |-> Titles(tagsMap[idx].val)])
    /\ idx' = idx + 1
    /\ UNCHANGED << pc, stages, buildDir, templates, files, posts, pages, tagsMap, sitemap,
                    rss, error, console, exitCode, parsed, current, related, ads, stale, call >>

NextTags == TagPostsLoaded \/ BuildTagsMap \/ TagPageParams

SpecTags == InitTags /\ [][NextTags]_vars

\* ------------------------------------------------------------------ claims

\* The files of the build directory that this run wrote
RunFiles == { p \in DOMAIN buildDir : buildDir[p].kind # "stale" }

StageDone(stage) == stage \in Range(stages)

IsPrefix(s, t) == Len(s) <= Len(t) /\ SubSeq(t, 1, Len(s)) = s

PositionIn(s, e) == CHOOSE i \in 1..Len(s) : s[i] = e

\* C1 as stated: whenever a build run ends in the failure state, whichever
\* stage raised the error, the build directory holds no file written by that
\* run.
C1_NoPartialOutput == pc = "failed" => RunFiles = {}

\* C1 as amended: a run that fails before loadPosts has returned (cleaning,
\* template read, directory read, post read, validation, date parsing) leaves
\* no file it wrote; a run that fails later leaves what the completed stages
\* wrote: the assets once copyAssets completed, a root page once its stage
\* completed.
C1_FailureBeforeWritesLeavesNothing ==
    pc = "failed" =>
        /\ ~StageDone("posts") => RunFiles = {}
        /\ StageDone("assets") => AssetFiles \subseteq RunFiles
        /\ StageDone("home") => "/index.html" \in RunFiles
        /\ StageDone("about") => "/about.html" \in RunFiles

C1_Witness ==
    /\ pc = "failed"
    /\ error.kind = "date"
    /\ Len(posts) = 1
    /\ RunFiles = {}

\* C2: when the metadata header of a post file lacks required fields, the
\* build fails with an error that names the file and every missing field, and
\* no output file has been written at that moment.
C2_MissingFieldsAbortBeforeOutput ==
    parsed.fields # Range(REQUIRED_FRONTMATTER_FIELDS) =>
        /\ pc = "failed"
        /\ exitCode = 1
        /\ error.kind = "missing"
        /\ error.file = Str(files[idx])
        /\ Range(error.fields) = Range(REQUIRED_FRONTMATTER_FIELDS) \ parsed.fields
        /\ RunFiles = {}

C2_Witness ==
    /\ pc = "failed"
    /\ "summary" \notin parsed.fields
    /\ error.fields = << "summary", "tags" >>
    /\ Len(posts) = 1

\* C3: the stages run in the one order of StageOrder; the run ends in exactly
\* one of two terminal states: success, where every stage completed and only
\* then the summary is printed, or failure with exit code 1 at the stage that
\* raised the error, after which nothing runs.
C3_LinearPipeline ==
    /\ [](/\ IsPrefix(stages, StageOrder)
          /\ pc \notin { "done", "failed" } =>
                /\ pc = StageOrder[Len(stages) + 1]
                /\ console = << >>
                /\ exitCode = 0
          /\ pc = "done" =>
                /\ stages = StageOrder
                /\ console = << "Build finalizado" >>
                /\ exitCode = 0
          /\ pc = "failed" =>
                /\ stages # StageOrder
                /\ console = << "error" >>
                /\ exitCode = 1)
    /\ [][pc \notin { "done", "failed" }]_vars

C3_Witness == pc = "done" /\ Len(posts) = 2 /\ Len(tagsMap) = 2

\* C4 as stated: after loading, every post has a strictly later publish date
\* than the post that follows it.
C4_StrictlyDescending ==
    StageDone("posts") =>
        \A i \in 1..(Len(posts) - 1) : posts[i].date > posts[i + 1].date

\* C4 as amended: after loading, the collection holds one post per file of
\* the listing, no post has an earlier publish date than the post that follows
\* it, and posts with the same date are in the order of the directory listing.
C4_DescendingStable ==
    StageDone("posts") =>
        /\ Len(posts) = Len(files)
        /\ { posts[i].file : i \in 1..Len(posts) } = Range(files)
        /\ \A i \in 1..(Len(posts) - 1) :
              /\ posts[i].date >= posts[i + 1].date
              /\ posts[i].date = posts[i + 1].date =>
                    PositionIn(files, posts[i].file) < PositionIn(files, posts[i + 1].file)

C4_Witness ==
    /\ StageDone("posts")
    /\ Len(posts) = 3
    /\ posts[1].date > posts[2].date
    /\ posts[2].date = posts[3].date

\* ----------------------------------------- claims on related-post selection

Min(a, b) == IF a < b THEN a ELSE b

CurrentPost == posts[current]

\* The positions of the posts other than the current one
OtherPositions == (1..Len(posts)) \ { current }

\* p is ahead of q in the order of the selection: a higher score, or the same
\* score and a later publish date
Outranks(p, q) ==
    \/ Score(p, CurrentPost) > Score(q, CurrentPost)
    \/ /\ Score(p, CurrentPost) = Score(q, CurrentPost)
       /\ p.date > q.date

RelatedRanking ==
    /\ Len(related) <= 3
    /\ CurrentPost \notin Range(related)
    /\ Range(related) \subseteq Range(posts)
    /\ \A i, j \in 1..Len(related) : i # j => related[i] # related[j]
    /\ \A i \in 1..(Len(related) - 1) : ~Outranks(related[i + 1], related[i])
    /\ \A j \in OtherPositions :
          posts[j] \notin Range(related) =>
             \A i \in 1..Len(related) : ~Outranks(posts[j], related[i])

\* C5: findRelatedPosts returns at most 3 posts, never the current post,
\* ordered by descending score with ties broken by descending publish date,
\* and no other post left out of the result outranks a returned post.
C5_RelatedRanking == pc = "relatedDone" => RelatedRanking

SlugsDistinct ==
    \A i, j \in 1..Len(posts) : i # j => posts[i].slug # posts[j].slug

\* The ranking of C5 holds for every collection whose slugs are distinct.
RelatedRankingWithDistinctSlugs == (pc = "relatedDone" /\ SlugsDistinct) => RelatedRanking

\* The positions of the other posts that score above zero / that score zero
PositivePositions == { j \in OtherPositions : Score(posts[j], CurrentPost) > 0 }

\* The scenario of the specification: the current post has tags x, y and
\* category Tech; a has tags x, y and category Tech, b has tag x and category
\* Tech, c shares no tag and has category Other.
HasHeader(post, category, tags) == post.category = category /\ post.tags = tags

ScenarioAt(a, b, c) ==
    /\ Len(posts) = 4
    /\ { current, a, b, c } = 1..4
    /\ HasHeader(CurrentPost, "Tech", << << "x" >>, << "y" >> >>)
    /\ HasHeader(posts[a], "Tech", << << "x" >>, << "y" >> >>)
    /\ HasHeader(posts[b], "Tech", << << "x" >> >>)
    /\ HasHeader(posts[c], "Other", << << "z" >> >>)
    /\ \A j \in { a, b, c } : posts[j].slug # CurrentPost.slug

\* C6 as stated: when fewer than 3 other posts score above zero but at least
\* one does, the posts that score zero follow the positive ones in the result
\* as fallback; in the scenario the result is a, b, c. (Stated for the
\* collections whose slugs are distinct, where the selection skips the current
\* post only.)
C6_ZeroScoreFallback ==
    (pc = "relatedDone" /\ SlugsDistinct) =>
        /\ (PositivePositions # {} /\ Cardinality(PositivePositions) < 3) =>
              /\ Len(related) = Min(3, Cardinality(OtherPositions))
              /\ \A i \in 1..(Len(related) - 1) : ~Outranks(related[i + 1], related[i])
        /\ \A a, b, c \in 1..Len(posts) :
              ScenarioAt(a, b, c) => related = << posts[a], posts[b], posts[c] >>

\* C6 as amended: when at least one post whose slug differs from the current
\* post's scores above zero, the result holds only such posts, the best
\* three of them at most: a post that scores zero is never added as fallback;
\* in the scenario the result is a, b, without c.
C6_PositiveScoresOnly ==
    pc = "relatedDone" =>
        LET eligible == { j \in PositivePositions : posts[j].slug # CurrentPost.slug }
        IN  /\ eligible # {} =>
                  /\ Len(related) = Min(3, Cardinality(eligible))
                  /\ Range(related) \subseteq { posts[j] : j \in eligible }
                  /\ \A i \in 1..(Len(related) - 1) : ~Outranks(related[i + 1], related[i])
            /\ \A a, b, c \in 1..Len(posts) :
                  ScenarioAt(a, b, c) => related = << posts[a], posts[b] >>

C6_Witness ==
    /\ pc = "relatedDone"
    /\ \E a, b, c \in 1..Len(posts) : ScenarioAt(a, b, c)

\* C7: if no other post scores above zero, the result is the 3 most recent
\* other posts (all of them when there are fewer than 3) in descending
\* publish-date order, and it is empty only when the current post is the only
\* post.
C7_FallbackMostRecent ==
    (pc = "relatedDone" /\ PositivePositions = {}) =>
        /\ Len(related) = Min(3, Cardinality(OtherPositions))
        /\ Range(related) \subseteq { posts[j] : j \in OtherPositions }
        /\ \A i \in 1..(Len(related) - 1) : related[i].date >= related[i + 1].date
        /\ \A j \in OtherPositions :
              posts[j] \notin Range(related) =>
                 \A i \in 1..Len(related) : posts[j].date <= related[i].date
        /\ related = << >> => Len(posts) = 1

\* The fallback of C7 holds for every collection whose slugs are distinct.
FallbackWithDistinctSlugs ==
    (pc = "relatedDone" /\ SlugsDistinct) => C7_FallbackMostRecent

\* ------------------------------------------ claims on the derived artifacts

\* The posts that carry a tag, in the order of the collection
TitlesWithTag(tag) ==
    Titles(SeqFilter(posts, { p \in Range(posts) : tag \in Range(p.tags) }))

RECURSIVE Dedupe(_)
\* A sequence without the repetitions of its elements
Dedupe(s) ==
    IF s = << >> THEN << >>
    ELSE << Head(s) >> \o Dedupe(SeqFilter(Tail(s), Range(s) \ { Head(s) }))

\* C8: the tag map (written to tags.json) enumerates its keys in alphabetical
\* order (localeCompare, pt-BR), and the list of every tag holds the posts
\* that carry the tag, in the relative order of the post collection.
C8_TagMapOrder ==
    StageDone("ads") =>
        /\ \A i, j \in 1..Len(tagsMap) :
              i < j => ~LocaleLess(tagsMap[j].key, tagsMap[i].key)
        /\ \A i \in 1..Len(tagsMap) :
              Dedupe(Titles(tagsMap[i].val)) = TitlesWithTag(tagsMap[i].key)

\* The lists of the tag map are in the order of the post collection, and its
\* keys are those of the tags of the posts, each once.
TagMapLists ==
    StageDone("ads") =>
        /\ { tagsMap[i].key : i \in 1..Len(tagsMap) } = UNION { Range(p.tags) : p \in Range(posts) }
        /\ \A i, j \in 1..Len(tagsMap) : i # j => tagsMap[i].key # tagsMap[j].key
        /\ \A i \in 1..Len(tagsMap) :
              Dedupe(Titles(tagsMap[i].val)) = TitlesWithTag(tagsMap[i].key)

\* The files of the pages pushed to the page list
PageFiles == { pages[i].file : i \in 1..Len(pages) }

\* The files of the pages of the site: the root pages, the post pages, the
\* tag pages
SitePageFiles ==
    { RootPages[i].file : i \in 1..Len(RootPages) }
    \cup { PostPageFile(posts[i]) : i \in 1..Len(posts) }
    \cup { TagPageFile(tagsMap[i].key) : i \in 1..Len(tagsMap) }

\* C9: once the sitemap is written, it holds exactly one <url> entry for each
\* distinct page file pushed to the page list (the root pages, the post
\* pages, the tag pages), and no file twice, also when a file was pushed more
\* than once.
C9_SitemapOneEntryPerFile ==
    StageDone("sitemap") =>
        /\ { sitemap[i].loc : i \in 1..Len(sitemap) } = PageFiles
        /\ PageFiles = SitePageFiles
        /\ \A i, j \in 1..Len(sitemap) : i # j => sitemap[i].loc # sitemap[j].loc

C9_Witness ==
    /\ pc = "done"
    /\ \E i, j \in 1..Len(pages) : i # j /\ pages[i].file = pages[j].file
    /\ Len(sitemap) < Len(pages)

\* C10: after a successful build the build directory holds the page of every
\* loaded post at posts/<slug>.html and the page of every key of the tag map
\* at tags/<slug>.html: no page is overwritten by the page of another post or
\* tag.
C10_OnePagePerPostAndTag ==
    pc = "done" =>
        /\ \A i \in 1..Len(posts) :
              /\ PostPageFile(posts[i]) \in DOMAIN buildDir
              /\ buildDir[PostPageFile(posts[i])].kind = "post"
              /\ buildDir[PostPageFile(posts[i])].of = posts[i].title
        /\ \A i \in 1..Len(tagsMap) :
              /\ TagPageFile(tagsMap[i].key) \in DOMAIN buildDir
              /\ buildDir[TagPageFile(tagsMap[i].key)].kind = "tag"
              /\ buildDir[TagPageFile(tagsMap[i].key)].of = Str(tagsMap[i].key)

\* --------------------------------------------------- claims on the loader

\* C11: every Post of the collection has a non-empty tag list: a file whose
\* tags are not a list, are an empty list or are blank entries only never
\* yields a Post.
C11_PostsHaveTags == \A i \in 1..Len(posts) : Len(posts[i].tags) > 0

\* A file whose tags are not a list or are an empty list yields no Post.
TagsListRequired ==
    (parsed.tagsIsArray = FALSE \/ parsed.tags = << >>) =>
        /\ pc = "failed"
        /\ error.kind \in { "missing", "tags" }

\* --------------------------------------------- claims on filesystem errors

\* C12: every filesystem failure of a build run leads to the failure state
\* (exit code 1); the one tolerated condition is the absence of ads.txt,
\* after which the build goes on: a run in which the copy of ads.txt failed
\* for another reason is in the failure state too.
C12_FsFailuresAreFatal ==
    /\ error.kind = "fs" => pc = "failed" /\ exitCode = 1
    /\ ads = "failed" => pc = "failed"
    /\ (ads = "absent" /\ error = NoError) => pc # "failed"

\* ------------------------------------------------ claims on renderTemplate

\* The positions i..e of the template hold a placeholder: {{, blanks, a name
\* of letters, digits and underscores, blanks, }}
IsPlaceholder(template, i, e) ==
    /\ 1 <= i /\ i + 4 <= e /\ e <= Len(template)
    /\ template[i] = "{" /\ template[i + 1] = "{"
    /\ template[e - 1] = "}" /\ template[e] = "}"
    /\ \E j, k \in (i + 2)..(e - 2) :
          /\ j <= k
          /\ \A n \in (i + 2)..(j - 1) : IsSpace(template[n])
          /\ \A n \in j..k : IsNameChar(template[n])
          /\ \A n \in (k + 1)..(e - 2) : IsSpace(template[n])

\* The name of the placeholder at i..e
PlaceholderName(template, i, e) ==
    SeqFilter(SubSeq(template, i + 2, e - 2), NameChars)

\* The string of the value the mapping has for a name, empty when it has
\* none (absent, undefined or null)
MappedString(params, name) ==
    IF ~ObjHas(params, name) \/ ObjGet(params, name) \in { Undefined, Null }
    THEN ""
    ELSE StringOf(ObjGet(params, name))

\* What position i of the template contributes to the rendering
RenderedPiece(template, params, i) ==
    IF \E e \in 1..Len(template) : IsPlaceholder(template, i, e)
    THEN LET e == CHOOSE e \in 1..Len(template) : IsPlaceholder(template, i, e)
         IN  MappedString(params, PlaceholderName(template, i, e))
    ELSE IF \E i0 \in 1..(i - 1), e \in i..Len(template) : IsPlaceholder(template, i0, e)
    THEN ""
    ELSE template[i]

RECURSIVE JoinPieces(_, _, _)
JoinPieces(template, params, i) ==
    IF i > Len(template) THEN ""
    ELSE RenderedPiece(template, params, i) \o JoinPieces(template, params, i + 1)

\* C13: renderTemplate replaces every placeholder {{ name }} by the string
\* of the value the mapping has for the name, or by the empty string when
\* the mapping has no value for it (absent, undefined or null), and copies
\* the text outside the placeholders unchanged.
C13_RenderTemplate ==
    pc = "rendered" => result = JoinPieces(call.template, call.params, 1)

\* The same for the templates whose placeholders do not name a property of
\* Object.prototype.
RenderTemplateOwnNames ==
    (pc = "rendered" /\ "constructor" \notin Range(call.template)) =>
        result = JoinPieces(call.template, call.params, 1)

\* ------------------------------------------------------- claims on slugify

\* A slug: runs of lowercase letters and digits separated by single hyphens,
\* no hyphen at either end
WellFormedSlug(slug) ==
    /\ \A i \in 1..Len(slug) : slug[i] = "-" \/ IsSlugChar(slug[i])
    /\ slug # << >> => slug[1] # "-" /\ slug[Len(slug)] # "-"
    /\ \A i \in 1..(Len(slug) - 1) : ~(slug[i] = "-" /\ slug[i + 1] = "-")

\* C14: the slug of every file name has at most 80 characters and consists
\* of runs of lowercase letters and digits separated by single hyphens, with
\* no hyphen at either end and no accent or punctuation, also when the
\* truncation to 80 characters applies.
C14_SlugWellFormed ==
    pc = "slugified" => Len(result) <= SlugMaxLen /\ WellFormedSlug(result)

\* The same for the file names that the truncation does not cut after a
\* hyphen.
SlugWellFormedUnlessCutAtHyphen ==
    (pc = "slugified" /\ ~(Len(result) = SlugMaxLen /\ result[SlugMaxLen] = "-")) =>
        Len(result) <= SlugMaxLen /\ WellFormedSlug(result)

\* ------------------------------------------------ claims on external links

\* The link was rewritten to open in a new context
Rewritten == result = [target |-> "_blank", rel |-> "noopener noreferrer"]

\* The target resolves, against the site, to an origin other than the site's
ResolvesElsewhere(href) ==
    /\ href.attr
    /\ ~ParseUrl(Trim(href.value), SiteOrigin).failure
    /\ ParseUrl(Trim(href.value), SiteOrigin).origin # SiteOrigin

\* A mailto:, tel: or javascript: target
IsSchemeExempt(href) ==
    /\ Trim(href.value) # << >>
    /\ LowerScheme(Head(Trim(href.value))) \in { "mailto:", "tel:", "javascript:" }

\* A target that starts with # or /
IsLocalReference(href) ==
    /\ Trim(href.value) # << >>
    /\ Head(Trim(href.value)) \in { "#", "/" }

\* A target that starts with // (it takes the scheme of the site only)
IsProtocolRelative(href) ==
    /\ Len(Trim(href.value)) >= 2
    /\ Trim(href.value)[1] = "/" /\ Trim(href.value)[2] = "/"

\* C15: a link is rewritten with target=_blank and rel="noopener noreferrer"
\* if and only if its target resolves to an origin different from the site
\* origin; targets that start with # or /, and mailto:, tel: and javascript:
\* targets, are left unmodified.
C15_ExternalLinks ==
    pc = "link_rendered" =>
        /\ IsSchemeExempt(call) \/ IsLocalReference(call) => ~Rewritten
        /\ ~IsSchemeExempt(call) => (Rewritten <=> ResolvesElsewhere(call))

\* The same for the targets that do not start with //.
ExternalLinksUnlessProtocolRelative ==
    (pc = "link_rendered" /\ ~IsProtocolRelative(call)) =>
        /\ IsSchemeExempt(call) \/ IsLocalReference(call) => ~Rewritten
        /\ ~IsSchemeExempt(call) => (Rewritten <=> ResolvesElsewhere(call))

\* ---------------------------------------------------- claims on rebuilding

\* The build directory of a successful build, ads.txt apart, is the output
\* tree of its posts.
OutputTreeIsBuild ==
    pc = "done" => KeepFiles(buildDir, DOMAIN buildDir \ { "/ads.txt" }) = OutputTree(posts)

\* C16: two builds of identical inputs produce identical output trees, in
\* whatever order the posts directory lists the files.
C16_RebuildIdentical == pc = "rebuilt" => result = buildDir

\* The same for the directories whose posts have distinct publish dates.
RebuildIdenticalWithDistinctDates ==
    (pc = "rebuilt" /\ \A i, j \in 1..Len(posts) : i # j => posts[i].date # posts[j].date) =>
        result = buildDir

\* C17: every file an earlier build left is removed before anything is
\* written, and after a successful build the build directory holds exactly
\* the files this run wrote: no stale file survives.
C17_NoStaleFile ==
    /\ ~StageDone("clean") => RunFiles = {}
    /\ StageDone("clean") => DOMAIN buildDir = RunFiles
    /\ pc = "done" =>
          /\ DOMAIN buildDir \ { "/ads.txt" } = DOMAIN OutputTree(posts)
          /\ stale \cap DOMAIN buildDir = {}

C17_Witness ==
    /\ pc = "done"
    /\ stale = { StaleFile }
    /\ StaleFile \notin DOMAIN buildDir
    /\ Len(posts) > 0

\* ------------------------------------------------- claims on the RSS feed

\* The post of a title
PostTitled(title) == CHOOSE p \in Range(posts) : p.title = title

\* The posts the feed leaves out
OmittedFromFeed == { p \in Range(posts) : p.title \notin Range(rss) }

\* C18: the feed of a successful build has min(20, number of posts) items,
\* which are posts, each once, in descending publish-date order, and no item
\* is older than a post the feed leaves out.
C18_FeedMostRecent ==
    pc = "done" =>
        /\ Len(rss) = Min(RssMax, Len(posts))
        /\ Range(rss) \subseteq Range(Titles(posts))
        /\ \A i, j \in 1..Len(rss) : i # j => rss[i] # rss[j]
        /\ \A i \in 1..(Len(rss) - 1) : PostTitled(rss[i]).date >= PostTitled(rss[i + 1]).date
        /\ \A i \in 1..Len(rss) : \A p \in OmittedFromFeed : PostTitled(rss[i]).date >= p.date

C18_Witness ==
    /\ pc = "done"
    /\ Len(posts) > RssMax
    /\ OmittedFromFeed # {}
    /\ files[Len(files)] = posts[1].file
    /\ \E i \in 1..Len(rss) : \E p \in OmittedFromFeed : PostTitled(rss[i]).date > p.date

\* -------------------------------------------------- claims on the sitemap

\* The least number of a set
Least(s) == CHOOSE n \in s : \A m \in s : n <= m

\* The first page pushed to the page list for a file
FirstPush(file) == pages[Least({ k \in 1..Len(pages) : pages[k].file = file })]

\* The first post of the collection whose page is a file
FirstPostAt(file) == posts[Least({ k \in 1..Len(posts) : PostPageFile(posts[k]) = file })]

\* C19: in the sitemap the last-modified value of the entry of a post page
\* is the publish time of the post, that of every other entry (root pages,
\* tag pages) is a time of the build run; for a file pushed more than once
\* the entry has the value of the first push.
C19_SitemapLastmod ==
    StageDone("sitemap") =>
        \A i \in 1..Len(sitemap) :
            /\ sitemap[i].lastmod = FirstPush(sitemap[i].loc).lastmod
            /\ IF sitemap[i].loc \in { PostPageFile(p) : p \in Range(posts) }
               THEN sitemap[i].lastmod = PostTime(FirstPostAt(sitemap[i].loc))
               ELSE sitemap[i].lastmod = BuildTime

C19_Witness ==
    /\ pc = "done"
    /\ \E i, j \in 1..Len(posts) :
          /\ i < j
          /\ PostPageFile(posts[i]) = PostPageFile(posts[j])
          /\ posts[i].date # posts[j].date
          /\ \E k \in 1..Len(sitemap) :
                /\ sitemap[k].loc = PostPageFile(posts[i])
                /\ sitemap[k].lastmod = PostTime(posts[i])
    /\ \E k \in 1..Len(sitemap) : sitemap[k].lastmod = BuildTime

\* --------------------------------------------- claims on the template reads

\* C20: in whatever order the seven concurrent template reads complete,
\* loadTemplates resolves only once all seven have completed, with the
\* complete map; no post is loaded and no file is written before that; and
\* when a read fails the build is in the failure state and has written no
\* file.
C20_TemplatesBeforePosts ==
    /\ StageDone("templates") => templates = TemplateNames
    /\ templates # TemplateNames =>
          /\ pc \in { "clean", "templates", "failed" }
          /\ files = << >> /\ posts = << >>
          /\ RunFiles = {}
    /\ (pc = "failed" /\ stages = << "clean" >>) =>
          /\ error = FsError("readFile")
          /\ exitCode = 1
          /\ RunFiles = {}

C20_Witness ==
    /\ pc = "failed"
    /\ stages = << "clean" >>
    /\ error = FsError("readFile")
    /\ { "post", "tag" } \subseteq templates
    /\ "base" \notin templates

\* ------------------------------------------- claims on the search widget

\* The index records that match the selected category, the selected tag and
\* the term of the input
MatchingRecords ==
    { r \in Range(call.index) :
        /\ call.category # "" => r.category = call.category
        /\ call.tag # << >> => call.tag \in Range(r.tags)
        /\ Trim(call.input) # << >> => FuseMatches(Trim(call.input), r) }

\* C21: once the documents have loaded, after any sequence of input and
\* select events the cards displayed are exactly the index records that
\* match the selected category, the selected tag and the term, each once,
\* and the count label is the number of cards.
C21_CardsMatchFilters ==
    pc = "ready" =>
        /\ Range(result.cards) = MatchingRecords
        /\ Len(result.cards) = Cardinality(MatchingRecords)
        /\ result.count = Len(result.cards)

\* The same for the indexes whose records have distinct URLs.
CardsMatchFiltersWithDistinctUrls ==
    (pc = "ready" /\ \A i, j \in 1..Len(call.index) :
                        i # j => call.index[i].url # call.index[j].url) =>
        /\ Range(result.cards) = MatchingRecords
        /\ Len(result.cards) = Cardinality(MatchingRecords)
        /\ result.count = Len(result.cards)

\* ------------------------------------------- claims on the template passes

\* C22: placeholder-like text inside a substituted value is never expanded:
\* the body of a post and the title of the page appear verbatim in the final
\* page, between the texts of the two templates, also when they hold
\* {{ name }} sequences of layout or page parameters.
C22_ValuesNotExpanded ==
    pc = "pageBuilt" =>
        result = "<" \o call.title \o ">" \o "[" \o Str(call.body) \o "v" \o "]" \o "v"

C22_Witness ==
    /\ pc = "pageBuilt"
    /\ call.body = << "{", "{", "a", "}", "}" >>
    /\ call.title = "{{content}}"
    /\ result = "<{{content}}>[{{a}}v]v"

\* The posts of the collection that carry a tag
PostsWithTag(tag) == { p \in Range(posts) : tag \in Range(p.tags) }

\* The number of times the tags of the posts name a tag
TagOccurrences(tag) ==
    Cardinality({ pr \in (1..Len(posts)) \X (1..3) :
                    pr[2] <= Len(posts[pr[1]].tags) /\ posts[pr[1]].tags[pr[2]] = tag })

\* C23: each post appears at most once in the list of any tag of the tag
\* map, and the count a tag page shows is the number of distinct posts that
\* carry the tag, also when the metadata of a post names the tag twice.
C23_PostOncePerTag ==
    pc = "tagPages" =>
        /\ \A i \in 1..Len(tagsMap) :
              /\ \A j, k \in 1..Len(tagsMap[i].val) :
                    j # k => tagsMap[i].val[j] # tagsMap[i].val[k]
              /\ Len(tagsMap[i].val) = Cardinality(PostsWithTag(tagsMap[i].key))
        /\ \A i \in 1..Len(result) :
              result[i].tagCount = Cardinality(PostsWithTag(result[i].tagName))

\* What the code keeps instead: the list of a tag holds one entry for each
\* time the tags of a post name it, and the tag page counts the entries.
TagListHoldsOccurrences ==
    pc = "tagPages" =>
        /\ \A i \in 1..Len(tagsMap) :
              Len(tagsMap[i].val) = TagOccurrences(tagsMap[i].key)
        /\ \A i \in 1..Len(result) :
              /\ result[i].tagCount = TagOccurrences(result[i].tagName)
              /\ Len(result[i].tagCards) = result[i].tagCount

\* The statement of C23 for the collections where no post names a tag twice
PostOncePerTagWithoutRepeats ==
    (\A i \in 1..Len(posts) : \A j, k \in 1..Len(posts[i].tags) :
         j # k => posts[i].tags[j] # posts[i].tags[k])
    => C23_PostOncePerTag

\* A tag page built for a post whose tags name the tag twice
RepeatedTagPage ==
    /\ pc = "tagPages"
    /\ Len(posts) = 1
    /\ posts[1].tags = << << "x" >>, << "x" >> >>
    /\ Len(result) = 1
    /\ result[1].tagCount = 2


====
